---------------------------- MODULE Spec2Model ----------------------------
(***************************************************************************)
(* A model of the first-order influence calculator and of the inverse-     *)
(* hessian-vector-product (IHVP) engines of deel.influenciae:              *)
(*   influence/first_order_influence_calculator.py                         *)
(*   influence/inverse_hessian_vector_product.py                           *)
(*                                                                         *)
(* Numbers are exact.  A tensor entry is either a rational, a signed       *)
(* square root s * sqrt(a) (what a division by an L2 norm produces), or    *)
(* NaN (0 / 0).  A rank-2 tensor is a sequence of rows, a rank-1 tensor a  *)
(* sequence of entries.                                                    *)
(***************************************************************************)
EXTENDS Integers, Sequences, FiniteSets, TLC

VARIABLES
    exact,      \* the ExactIHVP instance (or NoInstance)
    cgd,        \* the ConjugateGradientDescentIHVP instance (or NoInstance)
    calc,       \* the FirstOrderInfluenceCalculator instance
    call,       \* the last public call: its name and its arguments
    ret,        \* what that call returned, or the error it raised
    events,     \* the computations that call started, in order
    pc,         \* position of the running top_k call
    tk,         \* locals of the running top_k call
    acc,        \* two top-k accumulators fed the same batches in two orders
    opcalls     \* the running invocations of the CGD operator (__call__)

vars == <<exact, cgd, calc, call, ret, events, pc, tk, acc, opcalls>>

(***************************************************************************)
(* Bounds of the model.                                                    *)
(***************************************************************************)
MaxPoints == 2      \* samples in a dataset
MaxBatch == 2       \* batch size of a dataset
MaxK == 2           \* k of a top-k search
MaxQuery == 2       \* rows of a query batch
MaxTrain == 3       \* samples in the training dataset of a top_k call

(***************************************************************************)
(* Exact arithmetic.                                                       *)
(***************************************************************************)
Abs(x) == IF x < 0 THEN -x ELSE x

Sign(x) == IF x < 0 THEN -1 ELSE IF x = 0 THEN 0 ELSE 1

RECURSIVE GCD(_, _)
GCD(a, b) == IF b = 0 THEN a ELSE GCD(b, a % b)

\* the rational n / d in lowest terms, d > 0
Rat(n, d) ==
    LET s == IF d < 0 THEN -1 ELSE 1
        g == GCD(Abs(n), Abs(d))
    IN  <<(s * n) \div g, (s * d) \div g>>

R(n) == <<n, 1>>

RAdd(a, b) == Rat(a[1] * b[2] + b[1] * a[2], a[2] * b[2])
RNeg(a) == <<-a[1], a[2]>>
RSub(a, b) == RAdd(a, RNeg(b))
RMul(a, b) == Rat(a[1] * b[1], a[2] * b[2])
RDiv(a, b) == Rat(a[1] * b[2], a[2] * b[1])
RLess(a, b) == a[1] * b[2] < b[1] * a[2]
RSign(a) == Sign(a[1])

ISqrt(n) == CHOOSE k \in 0..n : k * k = n
RSqrt(a) == <<ISqrt(a[1]), ISqrt(a[2])>>

\* Tensor entries: a rational, a signed square root, or NaN
Num(r) == [k |-> "rat", s |-> RSign(r), a |-> r]
Surd(sg, q) == [k |-> "surd", s |-> sg, a |-> q]
NaN == [k |-> "nan", s |-> 0, a |-> R(0)]
Z(n) == Num(R(n))
IsRat(v) == v.k = "rat"
\* a value as a signed square root
AsSurd(v) == IF IsRat(v) THEN Surd(v.s, RMul(v.a, v.a)) ELSE v

\* IEEE addition, multiplication and division of two entries.  Two signed
\* square roots are added through the rational ratio of their magnitudes.
SurdAdd(x, y) ==
    IF x.s = 0 THEN y
    ELSE IF y.s = 0 THEN x
    ELSE LET scaled(t) == Surd(RSign(t), RMul(RMul(t, t), y.a))
         IN  scaled(RAdd(RMul(R(x.s), RSqrt(RDiv(x.a, y.a))), R(y.s)))

VAdd(x, y) ==
    IF x = NaN \/ y = NaN THEN NaN
    ELSE IF IsRat(x) /\ IsRat(y) THEN Num(RAdd(x.a, y.a))
    ELSE SurdAdd(AsSurd(x), AsSurd(y))

VMul(x, y) ==
    IF x = NaN \/ y = NaN THEN NaN
    ELSE IF IsRat(x) /\ IsRat(y) THEN Num(RMul(x.a, y.a))
    ELSE Surd(x.s * y.s, RMul(AsSurd(x).a, AsSurd(y).a))

\* x / y; 0 / 0 is NaN (a nonzero entry is never divided by zero here: the
\* divisor is the norm of the column the entry belongs to)
VDiv(x, y) ==
    IF x = NaN \/ y = NaN \/ y.s = 0 THEN NaN
    ELSE Surd(x.s * y.s, RDiv(AsSurd(x).a, AsSurd(y).a))

\* x > y as floating point compares: false when either side is NaN
VGreater(x, y) ==
    /\ x /= NaN
    /\ y /= NaN
    /\ \/ x.s > y.s
       \/ x.s = 1 /\ y.s = 1 /\ RLess(AsSurd(y).a, AsSurd(x).a)
       \/ x.s = -1 /\ y.s = -1 /\ RLess(AsSurd(x).a, AsSurd(y).a)

\* x and y denote the same number
VSame(x, y) == AsSurd(x) = AsSurd(y)

RECURSIVE VSum(_)
VSum(v) == IF v = <<>> THEN Z(0) ELSE VAdd(VSum(SubSeq(v, 1, Len(v) - 1)), v[Len(v)])

(***************************************************************************)
(* Tensors.  A failed tensorflow operation is an error result.             *)
(***************************************************************************)
Ok(v) == [error |-> "none", value |-> v]
Err(e) == [error |-> e, value |-> <<>>]
IsOk(r) == r.error = "none"

\* the sequence f, every entry evaluated
Vec(f) == f \o <<>>

NRows(m) == Len(m)
NCols(m) == IF Len(m) = 0 THEN 0 ELSE Len(m[1])

\* tf.transpose of a rank-2 tensor
Transpose(m) == Vec([j \in 1..NCols(m) |-> Vec([i \in 1..NRows(m) |-> m[i][j]])])

Dot(u, v) == VSum(Vec([i \in 1..Len(u) |-> VMul(u[i], v[i])]))

\* tf.matmul(a, b, transpose_b=True): a is m x p, b is n x p, the result m x n
MatMulT(a, b) ==
    IF NCols(a) /= NCols(b) THEN Err("InvalidArgumentError")
    ELSE Ok(Vec([i \in 1..NRows(a) |-> Vec([j \in 1..NRows(b) |-> Dot(a[i], b[j])])]))

\* tf.matmul(a, b): a is m x p, b is p x n
MatMul(a, b) == MatMulT(a, Transpose(b))

RECURSIVE Flatten(_)
Flatten(m) == IF m = <<>> THEN <<>> ELSE m[1] \o Flatten(Tail(m))

\* tf.reshape(t, (-1, c)): the entries of t in row-major order, c to a row
Reshape(m, c) ==
    LET f == Flatten(m)
    IN  IF Len(f) % c /= 0 THEN Err("InvalidArgumentError")
        ELSE Ok(Vec([i \in 1..(Len(f) \div c) |-> SubSeq(f, (i - 1) * c + 1, i * c)]))

\* tf.concat(ms, axis=0): the rows of the tensors one after the other; the
\* tensors must agree on every other dimension
RECURSIVE ConcatRows(_)
ConcatRows(ms) ==
    IF ms = <<>> THEN Err("InvalidArgumentError")
    ELSE IF Len(ms) = 1 THEN Ok(ms[1])
    ELSE LET rest == ConcatRows(Tail(ms))
         IN  IF ~IsOk(rest) THEN rest
             ELSE IF NCols(ms[1]) /= NCols(rest.value) THEN Err("InvalidArgumentError")
             ELSE Ok(ms[1] \o rest.value)

\* tf.reduce_sum(m, axis=1): one sum per row
ReduceSumAxis1(m) == Vec([i \in 1..NRows(m) |-> VSum(m[i])])

\* tf.reduce_sum(m, axis=0): one sum per column
ReduceSumAxis0(m) == ReduceSumAxis1(Transpose(m))

\* tf.norm(v) of a rank-1 tensor: sqrt of the sum of the squares
Norm(v) ==
    IF \E i \in 1..Len(v) : v[i] = NaN THEN NaN
    ELSE LET root(q) == Surd(q.s, q.a)
         IN  root(VSum(Vec([i \in 1..Len(v) |-> VMul(v[i], v[i])])))

\* v / tf.norm(v, axis=0, keepdims=True) of a rank-1 tensor
DivideByNorm1(v) ==
    LET norm == Norm(v)
    IN  Vec([i \in 1..Len(v) |-> VDiv(v[i], norm)])

\* v / tf.norm(v, axis=0, keepdims=True) of a rank-2 tensor: every column is
\* divided by its own norm
DivideByNorm2(m) ==
    LET columns == Transpose(m)
    IN  Transpose(Vec([j \in 1..NCols(m) |-> DivideByNorm1(columns[j])]))

ZeroMatrix(n) == Vec([i \in 1..n |-> Vec([j \in 1..n |-> Z(0)])])

MatAdd(a, b) ==
    Vec([i \in 1..NRows(a) |-> Vec([j \in 1..NCols(a) |-> VAdd(a[i][j], b[i][j])])])

MatScale(c, a) ==
    Vec([i \in 1..NRows(a) |-> Vec([j \in 1..NCols(a) |-> VMul(c, a[i][j])])])

\* 1 / x of a nonzero rational entry
Inv(x) == Num(RDiv(R(1), x.a))

Neg(x) == VMul(Z(-1), x)

\* tf.linalg.pinv of a 2 x 2 matrix: the inverse when there is one, the zero
\* matrix for the zero matrix, and A^T / |A|_F^2 for a matrix of rank one
Pinv(m) ==
    LET flat == Flatten(m)
        inverse(det, fro) ==
            IF det.s /= 0
              THEN MatScale(Inv(det), <<<<m[2][2], Neg(m[1][2])>>, <<Neg(m[2][1]), m[1][1]>>>>)
            ELSE IF fro.s = 0 THEN m
            ELSE MatScale(Inv(fro), Transpose(m))
    IN  inverse(VAdd(VMul(m[1][1], m[2][2]), Neg(VMul(m[1][2], m[2][1]))),
                VSum(Vec([i \in 1..Len(flat) |-> VMul(flat[i], flat[i])])))

(***************************************************************************)
(* Datasets (tf.data.Dataset).  A dataset holds samples (input, label) or  *)
(* plain vectors; batch_size 0 is a dataset that was never batched.        *)
(***************************************************************************)
None == <<>>

Dataset(kind, elems, bs) == [kind |-> kind, elems |-> elems, batch_size |-> bs]

NoDataset == Dataset("none", <<>>, 0)

Min(a, b) == IF a < b THEN a ELSE b

\* dataset.cardinality(): the number of batches
cardinality(ds) ==
    IF ds.batch_size = 0 THEN Len(ds.elems)
    ELSE (Len(ds.elems) + ds.batch_size - 1) \div ds.batch_size

\* the batches a batched dataset yields, in order; the last may be smaller
Batches(ds) ==
    Vec([i \in 1..cardinality(ds) |->
        SubSeq(ds.elems, (i - 1) * ds.batch_size + 1, Min(i * ds.batch_size, Len(ds.elems)))])

\* common.assert_batched_dataset
assert_batched_dataset(ds) == IF ds.batch_size = 0 THEN Err("ShapeError") ELSE Ok(<<>>)

\* common.dataset_size: the total number of samples
dataset_size(ds) == Len(ds.elems)

(***************************************************************************)
(* The model whose influence is computed (the InfluenceModel interface):   *)
(* a frozen head that maps an input to a feature map, and a linear tail    *)
(* with nb_params weights under a squared loss.                            *)
(***************************************************************************)
nb_params == 2

Weights == <<Z(1), Z(-1)>>

\* the model's layers: a frozen head (layers[0]) and the linear tail
\* (layers[1]); extractor_layer = 1 splits the model between the two
NLayers == 2

\* the head sub-network (model.layers[:1])
feature_extractor(x) == <<VAdd(x[1], x[2]), x[2]>>

Sample(x1, x2, y) == [x |-> <<Z(x1), Z(x2)>>, y |-> Z(y)]

\* gradient of the loss of one (feature map, label) pair wrt the weights
FeatureGradient(f, y) ==
    LET residual == VAdd(Dot(Weights, f), Neg(y))
    IN  Vec([i \in 1..nb_params |-> VMul(residual, f[i])])

\* model.batch_jacobian_tensor(x, y) of one sample: its gradient
SampleGradient(p) == FeatureGradient(feature_extractor(p.x), p.y)

\* tape.jacobian(grads, weights) of one sample: its hessian
SampleHessian(p) ==
    LET f == feature_extractor(p.x)
    IN  Vec([i \in 1..nb_params |-> Vec([j \in 1..nb_params |-> VMul(f[i], f[j])])])

\* model.batch_jacobian_tensor(batch): one gradient per sample, batch x P
batch_jacobian_tensor(batch) == Vec([i \in 1..Len(batch) |-> SampleGradient(batch[i])])

\* model.batch_jacobian(dataset): the gradients of all the samples of the
\* dataset, batch after batch
batch_jacobian(ds) == Vec([i \in 1..Len(ds.elems) |-> SampleGradient(ds.elems[i])])

RECURSIVE MatSum(_)
MatSum(ms) ==
    IF ms = <<>> THEN ZeroMatrix(nb_params)
    ELSE MatAdd(MatSum(SubSeq(ms, 1, Len(ms) - 1)), ms[Len(ms)])

(***************************************************************************)
(* ExactIHVP                                                               *)
(***************************************************************************)
NoInstance ==
    [made |-> FALSE, train_set |-> NoDataset, parallel_iter |-> 0,
     inv_hessian |-> None, hessian |-> None]

\* the loop of _compute_inv_hessian: the running sum of the hessians of the
\* samples and the running count of the samples, after the first n batches
RECURSIVE HessianStream(_, _)
HessianStream(batches, n) ==
    IF n = 0 THEN [hess |-> ZeroMatrix(nb_params), nb_elt |-> 0]
    ELSE LET before == HessianStream(batches, n - 1)
             batched_samples == batches[n]
             curr_hess == MatSum(Vec([i \in 1..Len(batched_samples) |->
                                         SampleHessian(batched_samples[i])]))
         IN  [hess |-> MatAdd(before.hess, curr_hess),
              nb_elt |-> before.nb_elt + Len(batched_samples)]

\* the mean over the batches of the mean hessian of each batch
MeanHessian_batch_means(ds, parallel_iter) ==
    LET batch_mean(batched_samples) ==
            MatScale(Inv(Z(Len(batched_samples))),
                     MatSum(Vec([i \in 1..Len(batched_samples) |->
                                    SampleHessian(batched_samples[i])])))
        means(batches) ==
            MatScale(Inv(Z(Len(batches))),
                     MatSum(Vec([b \in 1..Len(batches) |-> batch_mean(batches[b])])))
    IN  means(Batches(ds))

\* the matrix _compute_inv_hessian inverts
MeanHessian(ds, parallel_iter) ==
    IF parallel_iter = 0
      THEN LET mean(end) == MatScale(Inv(Z(end.nb_elt)), end.hess)
           IN  mean(HessianStream(Batches(ds), cardinality(ds)))
    ELSE \* tf.reduce_mean over the hessians of all the samples
         MatScale(Inv(Z(Len(ds.elems))),
                  MatSum(Vec([i \in 1..Len(ds.elems) |-> SampleHessian(ds.elems[i])])))

compute_inv_hessian(ds, parallel_iter) == Pinv(MeanHessian(ds, parallel_iter))

\* ExactIHVP.__init__: the instance, or the error that ends the construction
\* (train_dataset NoDataset and train_hessian None stand for Python's None)
ExactIHVP_init(train_dataset, train_hessian, parallel_iter) ==
    IF train_dataset /= NoDataset /\ ~IsOk(assert_batched_dataset(train_dataset))
      THEN Err("ShapeError")
    ELSE IF train_dataset /= NoDataset
      THEN Ok([made |-> TRUE, train_set |-> train_dataset, parallel_iter |-> parallel_iter,
               inv_hessian |-> compute_inv_hessian(train_dataset, parallel_iter),
               hessian |-> None])
    ELSE IF train_hessian /= None
      THEN Ok([made |-> TRUE, train_set |-> NoDataset, parallel_iter |-> 0,
               inv_hessian |-> Pinv(train_hessian), hessian |-> train_hessian])
    ELSE \* raise ArgumentError(message): argparse.ArgumentError takes an argument
         \* and a message, so the raise itself fails with a TypeError
         Err("TypeError")

\* ExactIHVP.compute_ihvp_single_batch of one batch (data, targets)
Exact_compute_ihvp_single_batch(self, group_batch, use_gradient) ==
    IF use_gradient THEN MatMulT(self.inv_hessian, batch_jacobian_tensor(group_batch))
    ELSE Err("AttributeError")  \* a tuple of tensors has no element_spec

\* the products of a matrix with every batch of vectors of a dataset, each
\* batch reshaped to rows of nb_params entries, joined by tf.concat(.., axis=0)
VectorProducts(matrix, group) ==
    LET product(vector) == IF IsOk(vector) THEN MatMulT(matrix, vector.value) ELSE vector
        products(batches) ==
            Vec([i \in 1..Len(batches) |-> product(Reshape(batches[i], nb_params))])
        concat(per_batch) ==
            IF \E i \in 1..Len(per_batch) : ~IsOk(per_batch[i])
              THEN Err("InvalidArgumentError")
            ELSE ConcatRows(Vec([i \in 1..Len(per_batch) |-> per_batch[i].value]))
    IN  concat(products(Batches(group)))

\* ExactIHVP.compute_ihvp
Exact_compute_ihvp(self, group, use_gradient) ==
    IF ~IsOk(assert_batched_dataset(group)) THEN Err("ShapeError")
    ELSE IF use_gradient
      THEN MatMulT(self.inv_hessian, batch_jacobian(group))
    ELSE IF group.kind /= "vectors"
      THEN Err("AttributeError")  \* the element_spec of (x, y) pairs has no shape
    ELSE VectorProducts(self.inv_hessian, group)

\* compute_hvp that does not keep the hessian it computes
Exact_compute_hvp_uncached(self, group, use_gradient) ==
    IF ~IsOk(assert_batched_dataset(group)) THEN [self |-> self, ret |-> Err("ShapeError")]
    ELSE LET products(hessian) ==
                 [self |-> self,
                  ret |-> IF use_gradient THEN MatMulT(hessian, batch_jacobian(group))
                          ELSE IF group.kind /= "vectors" THEN Err("AttributeError")
                          ELSE VectorProducts(hessian, group)]
         IN  products(IF self.hessian = None THEN Pinv(self.inv_hessian) ELSE self.hessian)

\* ExactIHVP.compute_hvp: the instance after the call and what it returns
Exact_compute_hvp(self, group, use_gradient) ==
    IF ~IsOk(assert_batched_dataset(group)) THEN [self |-> self, ret |-> Err("ShapeError")]
    ELSE LET products(hessian) ==
                 [self |-> [self EXCEPT !.hessian = hessian],
                  ret |-> IF use_gradient THEN MatMulT(hessian, batch_jacobian(group))
                          ELSE IF group.kind /= "vectors" THEN Err("AttributeError")
                          ELSE VectorProducts(hessian, group)]
         IN  products(IF self.hessian = None THEN Pinv(self.inv_hessian) ELSE self.hessian)

(***************************************************************************)
(* ConjugateGradientDescentIHVP                                            *)
(***************************************************************************)
\* a feature map as a tensor: its shape and its entries
Tensor(shape, data) == [shape |-> shape, data |-> data]

\* tf.keras.Sequential(model.layers[:extractor_layer]) applied to one input.
\* A Python slice never fails: an index at or beyond the number of layers
\* takes every layer, and the "feature map" is the model's prediction.
head_sub_network(extractor_layer, x) ==
    IF extractor_layer >= NLayers THEN <<Dot(Weights, feature_extractor(x))>>
    ELSE feature_extractor(x)

\* ConjugateGradientDescentIHVP._compute_feature_map_dataset: the feature
\* maps of all the samples are concatenated, squeezed when there is exactly
\* one, sliced along the first axis, zipped with the labels and batched
compute_feature_map_dataset(extractor_layer, ds) ==
    LET from_tensor_slices(feature_maps) ==
            IF Len(feature_maps) = 1
              THEN Vec([i \in 1..Len(feature_maps[1]) |->
                           Tensor(<<>>, <<feature_maps[1][i]>>)])
            ELSE Vec([i \in 1..Len(feature_maps) |->
                         Tensor(<<Len(feature_maps[i])>>, feature_maps[i])])
        zip(slices) ==
            Vec([i \in 1..Min(Len(slices), Len(ds.elems)) |->
                    [x |-> slices[i], y |-> ds.elems[i].y]])
    IN  Dataset("features",
                zip(from_tensor_slices(
                        Vec([i \in 1..Len(ds.elems) |->
                                head_sub_network(extractor_layer, ds.elems[i].x)]))),
                ds.batch_size)

\* what the tail sub-network accepts as one feature map
IsFeatureMap(t) == t.shape = <<nb_params>>

\* ConjugateGradientDescentIHVP.__init__ (extractor_layer splits the model
\* into the head and the tail): the instance, or the error that ends the
\* construction.  Nothing compares extractor_layer with the model's layers.
CGD_init(extractor_layer, train_dataset, n_cgd_iters) ==
    IF ~IsOk(assert_batched_dataset(train_dataset)) THEN Err("ShapeError")
    ELSE Ok([made |-> TRUE, n_cgd_iters |-> n_cgd_iters,
             n_hessian |-> dataset_size(train_dataset),
             extractor_layer |-> extractor_layer,
             cardinality |-> cardinality(train_dataset),
             train_set |-> compute_feature_map_dataset(extractor_layer, train_dataset)])

\* what a construction has started when it ends: nothing when the dataset is
\* rejected at line 373, else the head sub-network and the feature-map
\* dataset (line 380) and the tail sub-network (lines 381-386)
CGD_init_events(train_dataset) ==
    IF ~IsOk(assert_batched_dataset(train_dataset)) THEN <<>>
    ELSE <<"feature_extractor", "compute_feature_map_dataset", "tail_sub_network">>

NoCGD ==
    [made |-> FALSE, n_cgd_iters |-> 0, n_hessian |-> 0, extractor_layer |-> 0,
     cardinality |-> 0, train_set |-> NoDataset]

\* a product weighted by the batch size of the training set over n_hessian
sub_call_block_weight(self, x, features, label) ==
    LET f == features.data
        fx == Dot(f, x)
        hvp == Vec([i \in 1..nb_params |-> VMul(f[i], fx)])
        weight == Num(Rat(self.train_set.batch_size, self.n_hessian))
    IN  Vec([i \in 1..nb_params |-> VMul(hvp[i], weight)])

\* ConjugateGradientDescentIHVP.__sub_call: the hessian-vector product of one
\* (feature map, label) pair, weighted by the size of the batch it is given
\* (always one pair: the caller expands its first axis) over n_hessian
sub_call(self, x, features, label) ==
    LET f == features.data
        fx == Dot(f, x)
        hvp == Vec([i \in 1..nb_params |-> VMul(f[i], fx)])
        weight == Num(Rat(1, self.n_hessian))
    IN  Vec([i \in 1..nb_params |-> VMul(hvp[i], weight)])

RECURSIVE VecSum(_)
VecSum(vs) ==
    IF vs = <<>> THEN Vec([i \in 1..nb_params |-> Z(0)])
    ELSE LET rest == VecSum(SubSeq(vs, 1, Len(vs) - 1))
         IN  Vec([i \in 1..nb_params |-> VAdd(rest[i], vs[Len(vs)][i])])

\* ConjugateGradientDescentIHVP.__call__: one pass over the first
\* `cardinality` batches of the feature-map dataset
cgd_call(self, x) ==
    LET batches == Batches(self.train_set)
    IN  IF self.cardinality > Len(batches) THEN Err("OutOfRangeError")
        ELSE IF \E i \in 1..Len(self.train_set.elems) :
                    ~IsFeatureMap(self.train_set.elems[i].x)
          THEN Err("ShapeError")
        ELSE Ok(VecSum(Vec([b \in 1..self.cardinality |->
                    VecSum(Vec([j \in 1..Len(batches[b]) |->
                        sub_call(self, x, batches[b][j].x, batches[b][j].y)]))])))

\* __call__ step by step.  An invocation holds its locals: the vector x, the
\* loop counter i, the position of its dataset_iterator, the batches it has
\* read, its running hessian_vector_product and what it returned.
NoCall == [state |-> "idle"]
NoCalls == <<NoCall, NoCall>>

\* __call__ up to its loop (lines 626-629): a zero accumulator and a fresh
\* iterator over self.train_set
call_begin(self, x_initial) ==
    [state |-> "loop", x |-> x_initial, i |-> 0, dataset_iterator |-> 0, read |-> <<>>,
     hessian_vector_product |-> Vec([j \in 1..nb_params |-> Z(0)]), ret |-> Ok(<<>>)]

\* a loop body that takes a new iterator at every turn
body_func_new_iterator(self, c) ==
    LET summed(block) ==
            IF \E j \in 1..Len(block) : ~IsFeatureMap(block[j].x)
              THEN [c EXCEPT !.state = "done", !.read = Append(@, 1),
                             !.ret = Err("ShapeError")]
            ELSE [c EXCEPT !.i = @ + 1, !.read = Append(@, 1),
                           !.hessian_vector_product =
                               VecSum(<<@, VecSum(Vec([j \in 1..Len(block) |->
                                   sub_call(self, c.x, block[j].x, block[j].y)]))>>)]
        next(batches) ==
            IF Len(batches) = 0
              THEN [c EXCEPT !.state = "done", !.ret = Err("OutOfRangeError")]
            ELSE summed(batches[1])
    IN  next(Batches(self.train_set))

\* body_func (lines 631-662): next(dataset_iterator), the sum over the block
\* of the products of its samples, added to the running product
body_func(self, c) ==
    LET summed(block) ==
            IF \E j \in 1..Len(block) : ~IsFeatureMap(block[j].x)
              THEN [c EXCEPT !.state = "done", !.dataset_iterator = @ + 1,
                             !.read = Append(@, c.dataset_iterator + 1),
                             !.ret = Err("ShapeError")]
            ELSE [c EXCEPT !.i = @ + 1, !.dataset_iterator = @ + 1,
                           !.read = Append(@, c.dataset_iterator + 1),
                           !.hessian_vector_product =
                               VecSum(<<@, VecSum(Vec([j \in 1..Len(block) |->
                                   sub_call(self, c.x, block[j].x, block[j].y)]))>>)]
        next(batches) ==
            IF c.dataset_iterator >= Len(batches)
              THEN [c EXCEPT !.state = "done", !.ret = Err("OutOfRangeError")]
            ELSE summed(batches[c.dataset_iterator + 1])
    IN  next(Batches(self.train_set))

\* __call__ after its loop (line 677): the product as a column
call_end(c) ==
    [c EXCEPT !.state = "done", !.ret = Ok(Transpose(<<c.hessian_vector_product>>))]

UnitVector(i) == Vec([j \in 1..nb_params |-> IF i = j THEN Z(1) ELSE Z(0)])

\* the instance as the linear operator handed to the solver: what __call__
\* returns for every unit vector
Operator(self) == Vec([i \in 1..nb_params |-> cgd_call(self, UnitVector(i))])

\* common.conjugate_gradients_solve(operator, b): the x with operator(x) = b,
\* for a column b of nb_params entries
conjugate_gradients_solve(operator, b) ==
    IF NRows(b) /= nb_params \/ NCols(b) /= 1 THEN Err("ShapeError")
    ELSE IF \E i \in 1..nb_params : ~IsOk(operator[i]) THEN Err("ShapeError")
    ELSE MatMul(Pinv(Transpose(Vec([i \in 1..nb_params |-> operator[i].value]))), b)

\* tf.squeeze of a batch of vectors, reshaped to (first dimension, -1)
SqueezedColumns(batch) ==
    IF Len(batch) = 1 THEN Vec([i \in 1..Len(batch[1]) |-> <<batch[1][i]>>]) ELSE batch

\* ConjugateGradientDescentIHVP.compute_ihvp
CGD_compute_ihvp(self, group, use_gradient) ==
    IF ~IsOk(assert_batched_dataset(group)) THEN Err("ShapeError")
    ELSE LET stack(ihvp_list) ==
                 IF \E i \in 1..Len(ihvp_list) : ~IsOk(ihvp_list[i]) THEN Err("ShapeError")
                 ELSE Ok(Transpose(Vec([i \in 1..Len(ihvp_list) |->
                                           Flatten(ihvp_list[i].value)])))
             solve(operator, grads) ==
                 stack(Vec([i \in 1..Len(grads) |->
                               conjugate_gradients_solve(operator, grads[i])]))
             jacobian(feature_maps) ==
                 Vec([i \in 1..Len(feature_maps.elems) |->
                         Transpose(<<FeatureGradient(feature_maps.elems[i].x.data,
                                                     feature_maps.elems[i].y)>>)])
             vectors(batches) ==
                 IF group.kind = "vectors"
                   THEN Vec([i \in 1..Len(batches) |-> SqueezedColumns(batches[i])])
                 ELSE Vec([i \in 1..Len(batches) |->
                              SqueezedColumns(Vec([j \in 1..Len(batches[i]) |->
                                                      batches[i][j].x]))])
             grads(feature_maps) ==
                 IF ~use_gradient THEN Ok(vectors(Batches(group)))
                 ELSE IF \E i \in 1..Len(feature_maps.elems) :
                             ~IsFeatureMap(feature_maps.elems[i].x)
                   THEN Err("ShapeError")
                 ELSE Ok(jacobian(feature_maps))
             solved(g) == IF IsOk(g) THEN solve(Operator(self), g.value) ELSE g
         IN  solved(grads(compute_feature_map_dataset(self.extractor_layer, group)))

(***************************************************************************)
(* FirstOrderInfluenceCalculator                                           *)
(***************************************************************************)
\* the calculator: its normalize flag and its ihvp_calculator
Calculator(normalize, kind, ihvp) == [normalize |-> normalize, kind |-> kind, ihvp |-> ihvp]

\* self.ihvp_calculator.compute_ihvp(group)
compute_ihvp(self, group) ==
    IF self.kind = "exact" THEN Exact_compute_ihvp(self.ihvp, group, TRUE)
    ELSE CGD_compute_ihvp(self.ihvp, group, TRUE)

\* FirstOrderInfluenceCalculator.__normalize_if_needed of a rank-2 tensor
\* [Features_Space, Batch_Size] (rank 2) or of one vector (rank 1)
normalize_if_needed(self, v, rank) ==
    IF self.normalize
      THEN IF rank = 2 THEN DivideByNorm2(v) ELSE DivideByNorm1(v)
    ELSE v

\* BaseInfluenceCalculator.assert_compatible_datasets: the common size of
\* two batched datasets
assert_compatible_datasets(dataset_a, dataset_b) ==
    IF dataset_a.batch_size = 0 \/ dataset_b.batch_size = 0 THEN Err("ShapeError")
    ELSE IF dataset_size(dataset_a) /= dataset_size(dataset_b) THEN Err("SizeMismatchError")
    ELSE Ok(dataset_size(dataset_a))

\* What a call leaves behind: its result and the computations it started
Outcome(r, evs) == [ret |-> r, events |-> evs]

\* FirstOrderInfluenceCalculator.compute_influence
compute_influence(self, dataset) ==
    IF ~IsOk(assert_batched_dataset(dataset)) THEN Outcome(Err("ShapeError"), <<>>)
    ELSE LET transposed(influence_vectors) ==
                 IF ~IsOk(influence_vectors) THEN influence_vectors
                 ELSE Ok(Transpose(normalize_if_needed(self, influence_vectors.value, 2)))
         IN  Outcome(transposed(compute_ihvp(self, dataset)), <<"compute_ihvp">>)

\* compute_influence_values that takes the gradients of dataset_train where
\* those of dataset_to_evaluate are due
compute_influence_values_train_grads(self, dataset_train, dataset_to_evaluate) ==
    LET to_evaluate == IF dataset_to_evaluate = NoDataset THEN dataset_train
                       ELSE dataset_to_evaluate
        reduce_sum(grads, ihvp) ==
            Vec([i \in 1..Len(grads) |-> <<Dot(grads[i], ihvp[i])>>])
        influence_values(grads, ihvp) ==
            IF ~IsOk(ihvp) THEN ihvp
            ELSE Ok(reduce_sum(grads, Transpose(normalize_if_needed(self, ihvp.value, 2))))
        checked(size) ==
            IF ~IsOk(size) THEN Outcome(size, <<>>)
            ELSE Outcome(influence_values(batch_jacobian(dataset_train),
                                          compute_ihvp(self, dataset_train)),
                         <<"batch_jacobian", "compute_ihvp">>)
    IN  checked(assert_compatible_datasets(dataset_train, to_evaluate))

\* compute_influence_values that compares the sizes of the datasets only
\* after the gradients and the ihvp were computed
compute_influence_values_late_check(self, dataset_train, dataset_to_evaluate) ==
    LET to_evaluate == IF dataset_to_evaluate = NoDataset THEN dataset_train
                       ELSE dataset_to_evaluate
        reduce_sum(grads, ihvp) ==
            Vec([i \in 1..Min(Len(grads), Len(ihvp)) |-> <<Dot(grads[i], ihvp[i])>>])
        influence_values(grads, ihvp) ==
            IF ~IsOk(ihvp) THEN ihvp
            ELSE Ok(reduce_sum(grads, Transpose(normalize_if_needed(self, ihvp.value, 2))))
        checked(size, values) ==
            Outcome(IF ~IsOk(size) THEN size ELSE values, <<"batch_jacobian", "compute_ihvp">>)
    IN  checked(assert_compatible_datasets(dataset_train, to_evaluate),
                influence_values(batch_jacobian(to_evaluate),
                                 compute_ihvp(self, dataset_train)))

\* FirstOrderInfluenceCalculator.compute_influence_values; dataset_to_evaluate
\* NoDataset stands for None
compute_influence_values(self, dataset_train, dataset_to_evaluate) ==
    LET to_evaluate == IF dataset_to_evaluate = NoDataset THEN dataset_train
                       ELSE dataset_to_evaluate
        reduce_sum(grads, ihvp) ==
            Vec([i \in 1..Len(grads) |-> <<Dot(grads[i], ihvp[i])>>])
        influence_values(grads, ihvp) ==
            IF ~IsOk(ihvp) THEN ihvp
            ELSE Ok(reduce_sum(grads, Transpose(normalize_if_needed(self, ihvp.value, 2))))
        checked(size) ==
            IF ~IsOk(size) THEN Outcome(size, <<>>)
            ELSE Outcome(influence_values(batch_jacobian(to_evaluate),
                                          compute_ihvp(self, dataset_train)),
                         <<"batch_jacobian", "compute_ihvp">>)
    IN  checked(assert_compatible_datasets(dataset_train, to_evaluate))

\* compute_influence_group that returns the reduced ihvp as it is
compute_influence_group_raw(self, group) ==
    IF ~IsOk(assert_batched_dataset(group)) THEN Outcome(Err("ShapeError"), <<>>)
    ELSE LET influence_group(ihvp) ==
                 IF ~IsOk(ihvp) THEN ihvp ELSE Ok(<<ReduceSumAxis1(ihvp.value)>>)
         IN  Outcome(influence_group(compute_ihvp(self, group)), <<"compute_ihvp">>)

\* compute_influence_group that normalizes every point's ihvp before it adds
\* them up
compute_influence_group_normalize_first(self, group) ==
    IF ~IsOk(assert_batched_dataset(group)) THEN Outcome(Err("ShapeError"), <<>>)
    ELSE LET influence_group(ihvp) ==
                 IF ~IsOk(ihvp) THEN ihvp
                 ELSE Ok(<<ReduceSumAxis1(normalize_if_needed(self, ihvp.value, 2))>>)
         IN  Outcome(influence_group(compute_ihvp(self, group)), <<"compute_ihvp">>)

\* FirstOrderInfluenceCalculator.compute_influence_group
compute_influence_group(self, group) ==
    IF ~IsOk(assert_batched_dataset(group)) THEN Outcome(Err("ShapeError"), <<>>)
    ELSE LET influence_group(ihvp) ==
                 IF ~IsOk(ihvp) THEN ihvp
                 ELSE Ok(<<normalize_if_needed(self, ReduceSumAxis1(ihvp.value), 1)>>)
         IN  Outcome(influence_group(compute_ihvp(self, group)), <<"compute_ihvp">>)

\* compute_influence_values_group that adds up the paired values of
\* compute_influence_values
compute_influence_values_group_paired(self, group_train, group_to_evaluate) ==
    LET total(paired) ==
            IF ~IsOk(paired.ret) THEN paired
            ELSE Outcome(Ok(<<ReduceSumAxis0(paired.ret.value)>>), paired.events)
    IN  total(compute_influence_values(self, group_train, group_to_evaluate))

\* FirstOrderInfluenceCalculator.compute_influence_values_group
compute_influence_values_group(self, group_train, group_to_evaluate) ==
    LET to_evaluate == IF group_to_evaluate = NoDataset THEN group_train
                       ELSE group_to_evaluate
        influence_values_group(reduced_grads, ihvp) ==
            IF ~IsOk(ihvp) THEN ihvp
            ELSE MatMul(reduced_grads,
                        normalize_if_needed(self, Transpose(<<ReduceSumAxis1(ihvp.value)>>), 2))
        checked(size) ==
            IF ~IsOk(size) THEN Outcome(size, <<>>)
            ELSE Outcome(influence_values_group(<<ReduceSumAxis0(batch_jacobian(to_evaluate))>>,
                                                compute_ihvp(self, group_train)),
                         <<"batch_jacobian", "compute_ihvp">>)
    IN  checked(assert_compatible_datasets(group_train, to_evaluate))

(***************************************************************************)
(* BatchedSortedDict, the bounded top-k accumulator: per query row a list  *)
(* of at most k (score, payload) entries, highest score first.             *)
(***************************************************************************)
BatchedSortedDict(batch_size, k) == [k |-> k, rows |-> Vec([i \in 1..batch_size |-> <<>>])]

Entry(score, payload) == [score |-> score, payload |-> payload]

\* an entry joins a row's list in front of the entries that are not greater
Insert_before_equal(row, e) ==
    LET not_greater == {p \in 1..Len(row) : ~VGreater(row[p].score, e.score)}
        at == IF not_greater = {} THEN Len(row) + 1
              ELSE CHOOSE p \in not_greater : \A q \in not_greater : p <= q
    IN  SubSeq(row, 1, at - 1) \o <<e>> \o SubSeq(row, at, Len(row))

\* an entry joins a row's list behind every entry that is not smaller
Insert(row, e) ==
    LET smaller == {p \in 1..Len(row) : VGreater(e.score, row[p].score)}
        at == IF smaller = {} THEN Len(row) + 1
              ELSE CHOOSE p \in smaller : \A q \in smaller : p <= q
    IN  SubSeq(row, 1, at - 1) \o <<e>> \o SubSeq(row, at, Len(row))

\* the entries of one batch join a row's list in the order of the batch
RECURSIVE Merge(_, _, _)
Merge(row, scores, payloads) ==
    IF scores = <<>> THEN row
    ELSE Merge(Insert(row, Entry(Head(scores), Head(payloads))), Tail(scores), Tail(payloads))

\* the list cut back to its k first entries
Prune(row, k) == SubSeq(row, 1, Min(k, Len(row)))

\* add_all that appends the batch without sorting it in
add_all_unsorted(self, score_matrix, payload_matrix) ==
    [self EXCEPT !.rows = Vec([i \in 1..Len(self.rows) |->
        Prune(self.rows[i] \o Vec([j \in 1..Len(score_matrix[i]) |->
                                     Entry(score_matrix[i][j], payload_matrix[i][j])]),
              self.k)])]

\* add_all(score_matrix, payload_matrix): the accumulator after the call
add_all(self, score_matrix, payload_matrix) ==
    [self EXCEPT !.rows = Vec([i \in 1..Len(self.rows) |->
        Prune(Merge(self.rows[i], score_matrix[i], payload_matrix[i]), self.k)])]

\* get(): the score lists and the payload lists, one of each per row
get(self) ==
    << Vec([i \in 1..Len(self.rows) |->
           Vec([p \in 1..Len(self.rows[i]) |-> self.rows[i][p].score])]),
       Vec([i \in 1..Len(self.rows) |->
           Vec([p \in 1..Len(self.rows[i]) |-> self.rows[i][p].payload])]) >>

(***************************************************************************)
(* FirstOrderInfluenceCalculator.top_k, one step per training batch.       *)
(***************************************************************************)
\* top_k whose accumulator keeps one entry more than k
top_k_init_one_more(sample_to_evaluate, dataset_train, k) ==
    LET started(grads_to_evaluate) ==
            [k |-> k, query |-> sample_to_evaluate, train |-> dataset_train,
             grads |-> grads_to_evaluate, read |-> 0,
             dic |-> BatchedSortedDict(Len(grads_to_evaluate), k + 1)]
    IN  started(batch_jacobian_tensor(sample_to_evaluate))

\* the call before its first batch: the query gradients and an empty
\* accumulator
top_k_init(sample_to_evaluate, dataset_train, k) ==
    LET started(grads_to_evaluate) ==
            [k |-> k, query |-> sample_to_evaluate, train |-> dataset_train,
             grads |-> grads_to_evaluate, read |-> 0,
             dic |-> BatchedSortedDict(Len(grads_to_evaluate), k)]
    IN  started(batch_jacobian_tensor(sample_to_evaluate))

\* a turn of the loop that drops a final batch smaller than the others
top_k_batch_drop_remainder(self, t) ==
    LET repeat(batch) ==
            Vec([i \in 1..Len(t.grads) |-> Vec([j \in 1..Len(batch) |-> batch[j].x])])
        added(batch, influence_values) ==
            IF ~IsOk(influence_values) THEN [ret |-> influence_values, tk |-> t]
            ELSE IF Len(batch) < t.train.batch_size
              THEN [ret |-> Ok(<<>>), tk |-> [t EXCEPT !.read = @ + 1]]
            ELSE [ret |-> Ok(<<>>),
                  tk |-> [t EXCEPT !.read = @ + 1,
                                   !.dic = add_all(@, influence_values.value, repeat(batch))]]
        scored(ihvp) ==
            IF ~IsOk(ihvp) THEN ihvp
            ELSE MatMul(t.grads, normalize_if_needed(self, ihvp.value, 2))
        turn(batch) ==
            added(batch, scored(compute_ihvp(self, Dataset("samples", batch, Len(batch)))))
    IN  turn(Batches(t.train)[t.read + 1])

\* a turn of the loop that also moves past the batch after the one it adds
top_k_batch_skip(self, t) ==
    LET repeat(batch) ==
            Vec([i \in 1..Len(t.grads) |-> Vec([j \in 1..Len(batch) |-> batch[j].x])])
        added(batch, influence_values) ==
            IF ~IsOk(influence_values) THEN [ret |-> influence_values, tk |-> t]
            ELSE [ret |-> Ok(<<>>),
                  tk |-> [t EXCEPT !.read = Min(@ + 2, cardinality(t.train)),
                                   !.dic = add_all(@, influence_values.value, repeat(batch))]]
        scored(ihvp) ==
            IF ~IsOk(ihvp) THEN ihvp
            ELSE MatMul(t.grads, normalize_if_needed(self, ihvp.value, 2))
        turn(batch) ==
            added(batch, scored(compute_ihvp(self, Dataset("samples", batch, Len(batch)))))
    IN  IF t.train.batch_size = 0 THEN [ret |-> Err("ValueError"), tk |-> t]
        ELSE turn(Batches(t.train)[t.read + 1])

\* one turn of the loop over dataset_train: the next batch's ihvp, the
\* scores of every query row against it, and their merge into the accumulator
top_k_batch(self, t) ==
    LET repeat(batch) ==
            Vec([i \in 1..Len(t.grads) |-> Vec([j \in 1..Len(batch) |-> batch[j].x])])
        added(batch, influence_values) ==
            IF ~IsOk(influence_values) THEN [ret |-> influence_values, tk |-> t]
            ELSE [ret |-> Ok(<<>>),
                  tk |-> [t EXCEPT !.read = @ + 1,
                                   !.dic = add_all(@, influence_values.value, repeat(batch))]]
        scored(ihvp) ==
            IF ~IsOk(ihvp) THEN ihvp
            ELSE MatMul(t.grads, normalize_if_needed(self, ihvp.value, 2))
        turn(batch) ==
            added(batch, scored(compute_ihvp(self, Dataset("samples", batch, Len(batch)))))
    IN  IF t.train.batch_size = 0
          THEN \* a dataset that was never batched yields single samples, and
               \* from_tensor_slices cannot slice a sample's scalar label
               [ret |-> Err("ValueError"), tk |-> t]
        ELSE turn(Batches(t.train)[t.read + 1])

(***************************************************************************)
(* Inputs.                                                                 *)
(***************************************************************************)
\* three training points: one the model fits exactly (zero gradient) and two
\* with the gradients (1, 0) and (1, 1)
PointFit == Sample(1, 0, 1)
PointB == Sample(1, 0, 0)
PointC == Sample(0, 1, -1)
Points == {PointFit, PointB, PointC}

SeqsUpTo(S, n) == UNION {[1..m -> S] : m \in 1..n}

\* the batched datasets of at most MaxPoints samples
BatchedDatasets ==
    {Dataset("samples", e, b) : e \in SeqsUpTo(Points, MaxPoints), b \in 1..MaxBatch}

\* the same, and those that were never batched
SampleDatasets ==
    {Dataset("samples", e, b) : e \in SeqsUpTo(Points, MaxPoints), b \in 0..MaxBatch}

\* vectors of nb_params entries and of twice as many
Vectors == {<<Z(1), Z(0)>>, <<Z(1), Z(2)>>}
LongVectors == {<<Z(1), Z(0), Z(0), Z(1)>>}
VectorDatasets ==
    {Dataset("vectors", e, b) :
        e \in SeqsUpTo(Vectors, MaxPoints) \cup SeqsUpTo(LongVectors, MaxPoints),
        b \in 0..MaxBatch}

\* the training sets the engines are built from: one batch, two batches the
\* last one smaller, a single sample, and a dataset that was never batched
TrainSets ==
    { Dataset("samples", <<PointB, PointC>>, 2),
      Dataset("samples", <<PointFit, PointB, PointC>>, 2),
      Dataset("samples", <<PointB>>, 1),
      Dataset("samples", <<PointB, PointC>>, 0) }

\* extractor-layer indices: the split between head and tail, and two that
\* are outside the range 0..NLayers-1 of the model's layers
ExtractorLayers == {1, NLayers, NLayers + 1}

\* precomputed hessians: one invertible, one of rank one
Hessians == { <<<<Z(2), Z(1)>>, <<Z(1), Z(1)>>>>, <<<<Z(1), Z(0)>>, <<Z(0), Z(0)>>>> }

Idle == [op |-> "idle", a |-> NoDataset, b |-> NoDataset, flag |-> FALSE, hessian |-> None]
Call(op, a, b, flag, hessian) == [op |-> op, a |-> a, b |-> b, flag |-> flag, hessian |-> hessian]

NoCalculator == Calculator(FALSE, "none", NoInstance)
NoTopK == [k |-> 0]
NoAcc == [k |-> 0]

\* the scores and payloads an accumulator is fed in SpecAcc: three batches
\* of two, one and two entries, each with the scores of two query rows; a
\* third row and beyond repeat them
FedBatches ==
    << [scores |-> <<<<Z(2), Z(0)>>, <<Z(0), Z(2)>>>>, payloads |-> <<"a", "b">>],
       [scores |-> <<<<Z(1)>>, <<Z(2)>>>>, payloads |-> <<"c">>],
       [scores |-> <<<<Z(0), Z(2)>>, <<Z(1), Z(1)>>>>, payloads |-> <<"d", "e">>] >>

\* batch i as the matrices add_all takes for an accumulator of `rows` rows
FedScores(i, rows) == Vec([r \in 1..rows |-> FedBatches[i].scores[((r - 1) % 2) + 1]])
FedPayloads(i, rows) == Vec([r \in 1..rows |-> FedBatches[i].payloads])

(***************************************************************************)
(* SpecIHVP: the two IHVP engines are constructed and queried.             *)
(***************************************************************************)
InitIHVP ==
    /\ exact = NoInstance
    /\ cgd = NoCGD
    /\ opcalls = NoCalls
    /\ calc = NoCalculator
    /\ call = Idle
    /\ ret = Ok(<<>>)
    /\ events = <<>>
    /\ pc = "idle"
    /\ tk = NoTopK
    /\ acc = NoAcc

\* ExactIHVP(model, train_dataset, train_hessian, parallel_iter), the
\* training set drawn from `sets`
ConstructExact(sets) ==
    /\ call = Idle
    /\ ~exact.made
    /\ ~cgd.made
    /\ \E train_dataset \in sets \cup {NoDataset},
          train_hessian \in Hessians \cup {None}, parallel_iter \in {0, 2} :
          \E made \in {ExactIHVP_init(train_dataset, train_hessian, parallel_iter)} :
              /\ call' = Call("ExactIHVP", train_dataset, NoDataset, parallel_iter /= 0,
                              train_hessian)
              /\ ret' = IF IsOk(made) THEN Ok(<<>>) ELSE made
              /\ exact' = IF IsOk(made) THEN made.value ELSE NoInstance
    /\ UNCHANGED <<cgd, calc, events, pc, tk, acc, opcalls>>

\* ConjugateGradientDescentIHVP(model, extractor_layer, train_dataset)
ConstructCGD ==
    /\ call = Idle
    /\ ~exact.made
    /\ ~cgd.made
    /\ \E train_dataset \in TrainSets, extractor_layer \in ExtractorLayers :
          \E made \in {CGD_init(extractor_layer, train_dataset, 100)} :
              /\ call' = Call("CGD", train_dataset, NoDataset, FALSE, <<extractor_layer>>)
              /\ ret' = IF IsOk(made) THEN Ok(<<>>) ELSE made
              /\ cgd' = IF IsOk(made) THEN made.value ELSE NoCGD
              /\ events' = CGD_init_events(train_dataset)
    /\ UNCHANGED <<exact, calc, pc, tk, acc, opcalls>>

\* exact.compute_ihvp(group, use_gradient)
ExactComputeIhvp ==
    /\ call = Idle
    /\ exact.made
    /\ \E use_gradient \in BOOLEAN :
       \E group \in IF use_gradient THEN SampleDatasets ELSE SampleDatasets \cup VectorDatasets :
          /\ call' = Call("exact.compute_ihvp", group, NoDataset, use_gradient, None)
          /\ ret' = Exact_compute_ihvp(exact, group, use_gradient)
    /\ UNCHANGED <<exact, cgd, calc, events, pc, tk, acc, opcalls>>

\* exact.compute_ihvp_single_batch(group_batch, use_gradient), the batch
\* being the first one of a batched dataset
ExactComputeIhvpSingleBatch ==
    /\ call = Idle
    /\ exact.made
    /\ \E use_gradient \in BOOLEAN, group \in BatchedDatasets :
          /\ call' = Call("exact.compute_ihvp_single_batch", group, NoDataset,
                          use_gradient, None)
          /\ ret' = Exact_compute_ihvp_single_batch(exact, Batches(group)[1], use_gradient)
    /\ UNCHANGED <<exact, cgd, calc, events, pc, tk, acc, opcalls>>

\* exact.compute_hvp(group, use_gradient)
ExactComputeHvp ==
    /\ call = Idle
    /\ exact.made
    /\ \E use_gradient \in BOOLEAN :
       \E group \in IF use_gradient THEN SampleDatasets ELSE SampleDatasets \cup VectorDatasets :
          \E done \in {Exact_compute_hvp(exact, group, use_gradient)} :
              /\ call' = Call("exact.compute_hvp", group, NoDataset, use_gradient, None)
              /\ ret' = done.ret
              /\ exact' = done.self
    /\ UNCHANGED <<cgd, calc, events, pc, tk, acc, opcalls>>

\* cgd.compute_ihvp(group, use_gradient), on an instance whose tail holds
\* the linear layer (what an empty tail computes is not modelled)
CGDComputeIhvp ==
    /\ call = Idle
    /\ cgd.made
    /\ cgd.extractor_layer < NLayers
    /\ \E use_gradient \in BOOLEAN :
       \E group \in IF use_gradient THEN SampleDatasets ELSE SampleDatasets \cup VectorDatasets :
          /\ call' = Call("cgd.compute_ihvp", group, NoDataset, use_gradient, None)
          /\ ret' = CGD_compute_ihvp(cgd, group, use_gradient)
    /\ UNCHANGED <<exact, cgd, calc, events, pc, tk, acc, opcalls>>

\* the caller takes the result
Return ==
    /\ call /= Idle
    /\ pc = "idle"
    /\ call' = Idle
    /\ ret' = Ok(<<>>)
    /\ events' = <<>>
    /\ tk' = NoTopK
    /\ UNCHANGED <<exact, cgd, calc, pc, acc, opcalls>>

NextIHVP ==
    \/ ConstructExact(TrainSets)
    \/ ConstructCGD
    \/ ExactComputeIhvp
    \/ ExactComputeIhvpSingleBatch
    \/ ExactComputeHvp
    \/ CGDComputeIhvp
    \/ Return

SpecIHVP == InitIHVP /\ [][NextIHVP]_vars

(***************************************************************************)
(* SpecHess: an ExactIHVP is constructed from a training dataset of any    *)
(* size and batch size (or from a hessian).                                *)
(***************************************************************************)
HessianSets == BatchedDatasets \cup TrainSets

NextHess ==
    \/ ConstructExact(HessianSets)
    \/ Return

SpecHess == InitIHVP /\ [][NextHess]_vars

(***************************************************************************)
(* SpecOp: two callers invoke the operator (__call__) of one               *)
(* ConjugateGradientDescentIHVP, their steps interleaved.                  *)
(***************************************************************************)
Callers == {1, 2}

\* the batched datasets the instance is built from
OpTrainSets == {ds \in HessianSets : ds.batch_size > 0}

InitOp ==
    /\ exact = NoInstance
    /\ cgd \in {CGD_init(1, ds, 100).value : ds \in OpTrainSets}
    /\ calc = NoCalculator
    /\ call = Idle
    /\ ret = Ok(<<>>)
    /\ events = <<>>
    /\ pc = "idle"
    /\ tk = NoTopK
    /\ acc = NoAcc
    /\ opcalls = NoCalls

\* self(x_initial) is entered
OpBegin(c) ==
    /\ opcalls[c].state = "idle"
    /\ \E x_initial \in Vectors :
          opcalls' = [opcalls EXCEPT ![c] = call_begin(cgd, x_initial)]
    /\ UNCHANGED <<exact, cgd, calc, call, ret, events, pc, tk, acc>>

\* one turn of tf.while_loop(cond: i < self.cardinality, body_func)
OpBody(c) ==
    /\ opcalls[c].state = "loop"
    /\ opcalls[c].i < cgd.cardinality
    /\ opcalls' = [opcalls EXCEPT ![c] = body_func(cgd, @)]
    /\ UNCHANGED <<exact, cgd, calc, call, ret, events, pc, tk, acc>>

\* the loop is over and the product is returned
OpEnd(c) ==
    /\ opcalls[c].state = "loop"
    /\ opcalls[c].i >= cgd.cardinality
    /\ opcalls' = [opcalls EXCEPT ![c] = call_end(@)]
    /\ UNCHANGED <<exact, cgd, calc, call, ret, events, pc, tk, acc>>

\* the caller takes the result
OpReturn(c) ==
    /\ opcalls[c].state = "done"
    /\ opcalls' = [opcalls EXCEPT ![c] = NoCall]
    /\ UNCHANGED <<exact, cgd, calc, call, ret, events, pc, tk, acc>>

NextOp ==
    \E c \in Callers :
        \/ OpBegin(c)
        \/ OpBody(c)
        \/ OpEnd(c)
        \/ OpReturn(c)

SpecOp == InitOp /\ [][NextOp]_vars

(***************************************************************************)
(* SpecCalc: a FirstOrderInfluenceCalculator answers one call at a time.   *)
(***************************************************************************)
\* the datasets of points to evaluate
EvalDatasets ==
    {Dataset("samples", e, b) : e \in SeqsUpTo({PointB, PointC}, MaxPoints), b \in 1..MaxBatch}

\* the calculators: over an ExactIHVP built from a training set (an
\* invertible hessian), over one built from a hessian of rank one, and over
\* a ConjugateGradientDescentIHVP; each with normalize off and on
Calculators ==
    {Calculator(n, "exact", i) :
        n \in BOOLEAN,
        i \in { ExactIHVP_init(Dataset("samples", <<PointB, PointC>>, 2), None, 0).value,
                ExactIHVP_init(NoDataset, <<<<Z(1), Z(0)>>, <<Z(0), Z(0)>>>>, 0).value }}
    \cup {Calculator(n, "cgd",
                     CGD_init(1, Dataset("samples", <<PointFit, PointB, PointC>>, 2),
                              100).value) :
             n \in BOOLEAN}

InitCalc ==
    /\ exact = NoInstance
    /\ cgd = NoCGD
    /\ opcalls = NoCalls
    /\ calc \in Calculators
    /\ call = Idle
    /\ ret = Ok(<<>>)
    /\ events = <<>>
    /\ pc = "idle"
    /\ tk = NoTopK
    /\ acc = NoAcc

\* calc.compute_influence(dataset)
ComputeInfluence ==
    /\ call = Idle
    /\ \E dataset \in SampleDatasets :
          \E done \in {compute_influence(calc, dataset)} :
              /\ call' = Call("compute_influence", dataset, NoDataset, FALSE, None)
              /\ ret' = done.ret
              /\ events' = done.events
    /\ UNCHANGED <<exact, cgd, calc, pc, tk, acc, opcalls>>

\* calc.compute_influence_group(group)
ComputeInfluenceGroup ==
    /\ call = Idle
    /\ \E group \in SampleDatasets :
          \E done \in {compute_influence_group(calc, group)} :
              /\ call' = Call("compute_influence_group", group, NoDataset, FALSE, None)
              /\ ret' = done.ret
              /\ events' = done.events
    /\ UNCHANGED <<exact, cgd, calc, pc, tk, acc, opcalls>>

\* calc.compute_influence_values(dataset_train, dataset_to_evaluate)
ComputeInfluenceValues ==
    /\ call = Idle
    /\ \E dataset_train \in BatchedDatasets, dataset_to_evaluate \in EvalDatasets \cup {NoDataset} :
          \E done \in {compute_influence_values(calc, dataset_train, dataset_to_evaluate)} :
              /\ call' = Call("compute_influence_values", dataset_train, dataset_to_evaluate,
                              FALSE, None)
              /\ ret' = done.ret
              /\ events' = done.events
    /\ UNCHANGED <<exact, cgd, calc, pc, tk, acc, opcalls>>

\* calc.compute_influence_values_group(group_train, group_to_evaluate)
ComputeInfluenceValuesGroup ==
    /\ call = Idle
    /\ \E group_train \in BatchedDatasets, group_to_evaluate \in EvalDatasets \cup {NoDataset} :
          \E done \in {compute_influence_values_group(calc, group_train, group_to_evaluate)} :
              /\ call' = Call("compute_influence_values_group", group_train, group_to_evaluate,
                              FALSE, None)
              /\ ret' = done.ret
              /\ events' = done.events
    /\ UNCHANGED <<exact, cgd, calc, pc, tk, acc, opcalls>>

NextCalc ==
    \/ ComputeInfluence
    \/ ComputeInfluenceGroup
    \/ ComputeInfluenceValues
    \/ ComputeInfluenceValuesGroup
    \/ Return

SpecCalc == InitCalc /\ [][NextCalc]_vars

(***************************************************************************)
(* SpecTopK: a top_k call reads the training dataset batch by batch.       *)
(***************************************************************************)
\* the calculators of SpecCalc that sit on an ExactIHVP
TopKCalculators == {c \in Calculators : c.kind = "exact"}

\* the query batches
QueryBatches == SeqsUpTo({PointB, PointC}, MaxQuery)

\* the training datasets of a top_k call, batched or not
TopKTrainSets ==
    {Dataset("samples", e, b) : e \in SeqsUpTo({PointB, PointC}, MaxTrain), b \in 0..MaxBatch}

InitTopK ==
    /\ exact = NoInstance
    /\ cgd = NoCGD
    /\ opcalls = NoCalls
    /\ calc \in TopKCalculators
    /\ call = Idle
    /\ ret = Ok(<<>>)
    /\ events = <<>>
    /\ pc = "idle"
    /\ tk = NoTopK
    /\ acc = NoAcc

\* calc.top_k(sample_to_evaluate, dataset_train, k) up to its loop
TopKStart ==
    /\ call = Idle
    /\ pc = "idle"
    /\ \E sample_to_evaluate \in QueryBatches, dataset_train \in TopKTrainSets,
          k \in 1..MaxK :
          /\ call' = Call("top_k", dataset_train, NoDataset, FALSE, None)
          /\ tk' = top_k_init(sample_to_evaluate, dataset_train, k)
    /\ events' = <<"batch_jacobian_tensor">>
    /\ pc' = "loop"
    /\ UNCHANGED <<exact, cgd, calc, ret, acc, opcalls>>

\* one turn of the loop: `for batch in dataset_train`
TopKBatch ==
    /\ pc = "loop"
    /\ tk.read < cardinality(tk.train)
    /\ \E done \in {top_k_batch(calc, tk)} :
           /\ tk' = done.tk
           /\ ret' = done.ret
           /\ events' = IF IsOk(done.ret) THEN events \o <<"compute_ihvp", "add_all">>
                        ELSE IF tk.train.batch_size = 0 THEN events
                        ELSE events \o <<"compute_ihvp">>
           /\ pc' = IF IsOk(done.ret) THEN "loop" ELSE "idle"
    /\ UNCHANGED <<exact, cgd, calc, call, acc, opcalls>>

\* the loop is over: batched_sorted_dic.get() is returned
TopKGet ==
    /\ pc = "loop"
    /\ tk.read = cardinality(tk.train)
    /\ ret' = Ok(get(tk.dic))
    /\ events' = Append(events, "get")
    /\ pc' = "idle"
    /\ UNCHANGED <<exact, cgd, calc, call, tk, acc, opcalls>>

NextTopK ==
    \/ TopKStart
    \/ TopKBatch
    \/ TopKGet
    \/ Return

SpecTopK == InitTopK /\ [][NextTopK]_vars

(***************************************************************************)
(* SpecAcc: two accumulators of the same k are fed the batches of          *)
(* FedBatches, each in an order of its own.                                *)
(***************************************************************************)
InitAcc ==
    /\ exact = NoInstance
    /\ cgd = NoCGD
    /\ opcalls = NoCalls
    /\ calc = NoCalculator
    /\ call = Idle
    /\ ret = Ok(<<>>)
    /\ events = <<>>
    /\ pc = "idle"
    /\ tk = NoTopK
    /\ \E k \in 1..MaxK, batch_size \in 1..MaxQuery :
          acc = [k |-> k, first |-> BatchedSortedDict(batch_size, k), fed_first |-> <<>>,
                 second |-> BatchedSortedDict(batch_size, k), fed_second |-> <<>>]

\* the batches of FedBatches that are not in `fed`
NotFed(fed) == {i \in 1..Len(FedBatches) : \A p \in 1..Len(fed) : fed[p] /= i}

\* first.add_all(scores, payloads) with a batch it has not seen
AddAllFirst ==
    /\ \E i \in NotFed(acc.fed_first) :
          acc' = [acc EXCEPT
                     !.first = add_all(@, FedScores(i, Len(@.rows)), FedPayloads(i, Len(@.rows))),
                     !.fed_first = Append(@, i)]
    /\ UNCHANGED <<exact, cgd, calc, call, ret, events, pc, tk, opcalls>>

\* second.add_all(scores, payloads) with a batch it has not seen
AddAllSecond ==
    /\ \E i \in NotFed(acc.fed_second) :
          acc' = [acc EXCEPT
                     !.second = add_all(@, FedScores(i, Len(@.rows)), FedPayloads(i, Len(@.rows))),
                     !.fed_second = Append(@, i)]
    /\ UNCHANGED <<exact, cgd, calc, call, ret, events, pc, tk, opcalls>>

NextAcc ==
    \/ AddAllFirst
    \/ AddAllSecond

SpecAcc == InitAcc /\ [][NextAcc]_vars

(***************************************************************************)
(* Properties.  Each is stated on the state a call leaves behind: `call`   *)
(* holds the arguments, `ret` the result.                                  *)
(***************************************************************************)
\* the dataset a compute_influence_values(_group) call evaluates on
ToEvaluate == IF call.b = NoDataset THEN call.a ELSE call.b

\* inv_hessian times a vector, for an ExactIHVP instance
InvHessianTimes(instance, g) ==
    Vec([i \in 1..nb_params |-> Dot(instance.inv_hessian[i], g)])

\* grad(e)^T inv_hessian grad(t) for the calculator's ExactIHVP
Cook(e, t) == Dot(SampleGradient(e), InvHessianTimes(calc.ihvp, SampleGradient(t)))

AllZero(v) == \A i \in 1..Len(v) : v[i] = Z(0)
NoNaN(v) == \A i \in 1..Len(v) : v[i] /= NaN

\* C1: with normalize off and an ExactIHVP, compute_influence_values on two
\* batched datasets of the same size n returns n values in input order, the
\* i-th being grad(eval_i) . inv_hessian . grad(train_i); with eval omitted
\* it is g^T H^-1 g of the training point itself.
C1_PairedValues ==
    ( /\ call.op = "compute_influence_values"
      /\ calc.kind = "exact"
      /\ ~calc.normalize
      /\ Len(call.a.elems) = Len(ToEvaluate.elems) )
    => /\ IsOk(ret)
       /\ Len(ret.value) = Len(call.a.elems)
       /\ \A i \in 1..Len(call.a.elems) :
             ret.value[i] = <<Cook(ToEvaluate.elems[i], call.a.elems[i])>>

\* C1 witness: two training points and two other evaluation points, batched
\* differently, with two different values
C1_Witness ==
    /\ call.op = "compute_influence_values"
    /\ calc.kind = "exact"
    /\ ~calc.normalize
    /\ call.b /= NoDataset
    /\ call.a.batch_size /= call.b.batch_size
    /\ Len(call.a.elems) = 2
    /\ Len(call.b.elems) = 2
    /\ call.a.elems /= call.b.elems
    /\ IsOk(ret)
    /\ ret.value[1] /= ret.value[2]

\* C3 (as claimed, for the ExactIHVP backend): compute_ihvp on a batched
\* dataset of n points returns P rows and n columns, column j being
\* inv_hessian times the j-th point's gradient (use_gradient) or times the
\* j-th vector (not use_gradient), however the points are batched.
C3_ColumnPerPoint ==
    ( /\ call.op = "exact.compute_ihvp"
      /\ call.a.batch_size > 0
      /\ call.flag => call.a.kind = "samples"
      /\ ~call.flag => /\ call.a.kind = "vectors"
                       /\ \A j \in 1..Len(call.a.elems) : Len(call.a.elems[j]) = nb_params )
    => /\ IsOk(ret)
       /\ NRows(ret.value) = nb_params
       /\ NCols(ret.value) = Len(call.a.elems)
       /\ \A j \in 1..Len(call.a.elems) :
             Transpose(ret.value)[j] =
                InvHessianTimes(exact, IF call.flag THEN SampleGradient(call.a.elems[j])
                                       ELSE call.a.elems[j])

\* C4 (as claimed): constructing ExactIHVP succeeds exactly when one of
\* train_dataset and train_hessian is given; with both or with neither it
\* fails and leaves no instance.
C4_ExactlyOne ==
    ( /\ call.op = "ExactIHVP"
      /\ call.a /= NoDataset => call.a.batch_size > 0 )
    => /\ IsOk(ret) <=> ((call.a /= NoDataset) /= (call.hessian /= None))
       /\ ~IsOk(ret) => exact = NoInstance

\* C7 (as claimed): with normalize on, every vector compute_influence returns
\* has unit L2 norm, except that a vector that was zero before the
\* normalization is returned as zero.
C7_UnitNormOrZero ==
    ( /\ call.op = "compute_influence"
      /\ calc.normalize
      /\ IsOk(ret) )
    => \A i \in 1..Len(ret.value) :
          IF AllZero(Transpose(compute_ihvp(calc, call.a).value)[i])
            THEN AllZero(ret.value[i])
          ELSE VSame(Norm(ret.value[i]), Z(1))

\* C8: on a dataset of exactly one point compute_influence_group returns
\* what compute_influence returns, one row of P entries, with normalize off
\* and with normalize on.
C8_SingletonGroup ==
    ( /\ call.op = "compute_influence_group"
      /\ call.a.batch_size > 0
      /\ Len(call.a.elems) = 1 )
    => /\ ret = compute_influence(calc, call.a).ret
       /\ IsOk(ret) => Len(ret.value) = 1 /\ Len(ret.value[1]) = nb_params

\* C8 witness: a single point with a nonzero influence vector, normalize on
C8_Witness ==
    /\ call.op = "compute_influence_group"
    /\ call.a.batch_size > 0
    /\ Len(call.a.elems) = 1
    /\ calc.normalize
    /\ IsOk(ret)
    /\ NoNaN(ret.value[1])
    /\ ~AllZero(ret.value[1])
    /\ VSame(Norm(ret.value[1]), Z(1))

\* the sum over all pairs (i, j) of grad(eval_i)^T inv_hessian grad(train_j)
AllPairs(to_evaluate, train) ==
    VSum(Vec([i \in 1..Len(to_evaluate) |->
        VSum(Vec([j \in 1..Len(train) |-> Cook(to_evaluate[i], train[j])]))]))

\* the sum of the paired values grad(eval_i)^T inv_hessian grad(train_i)
PairedSum(to_evaluate, train) ==
    VSum(Vec([i \in 1..Len(train) |-> Cook(to_evaluate[i], train[i])]))

\* C9: with normalize off and an ExactIHVP, compute_influence_values_group
\* returns the one scalar (sum of the eval gradients) . inv_hessian . (sum of
\* the train gradients), the sum over all pairs with the cross terms.
C9_GroupValue ==
    ( /\ call.op = "compute_influence_values_group"
      /\ calc.kind = "exact"
      /\ ~calc.normalize
      /\ Len(call.a.elems) = Len(ToEvaluate.elems) )
    => ret = Ok(<<<<AllPairs(ToEvaluate.elems, call.a.elems)>>>>)

\* C9 witness: a group of two points whose value is not the sum of its two
\* paired values
C9_Witness ==
    /\ call.op = "compute_influence_values_group"
    /\ calc.kind = "exact"
    /\ ~calc.normalize
    /\ Len(call.a.elems) = 2
    /\ Len(ToEvaluate.elems) = 2
    /\ IsOk(ret)
    /\ ret.value /= <<<<PairedSum(ToEvaluate.elems, call.a.elems)>>>>

\* C10: compute_influence_values and compute_influence_values_group given
\* two datasets of different sizes fail with SizeMismatchError before any
\* gradient or ihvp is computed.
C10_SizeMismatch ==
    ( /\ call.op \in {"compute_influence_values", "compute_influence_values_group"}
      /\ Len(call.a.elems) /= Len(ToEvaluate.elems) )
    => /\ ret = Err("SizeMismatchError")
       /\ events = <<>>

\* C10 witness: a group call with one training point and two to evaluate
C10_Witness ==
    /\ call.op = "compute_influence_values_group"
    /\ Len(call.a.elems) = 1
    /\ Len(call.b.elems) = 2
    /\ ret = Err("SizeMismatchError")
    /\ events = <<>>

\* a top_k call has returned its lists
TopKReturned == call.op = "top_k" /\ pc = "idle" /\ IsOk(ret)

\* score(i, j) = grad(query_i) . IHVP(train_j) of the running top_k call
Score(i, j) == Cook(tk.query[i], tk.train.elems[j])

\* no entry of the list is greater than an entry before it
Descending(scores) ==
    \A p \in 1..Len(scores), q \in 1..Len(scores) : p < q => ~VGreater(scores[q], scores[p])

\* the lists returned for query row i are the min(k, N) largest scores over
\* all N training samples, highest first, each with the input of a training
\* sample of its own that has this score
TopKOfRow(i) ==
    \E chosen \in [1..Min(tk.k, Len(tk.train.elems)) -> 1..Len(tk.train.elems)] :
        /\ \A p, q \in DOMAIN chosen : p /= q => chosen[p] /= chosen[q]
        /\ Len(ret.value[1][i]) = Len(chosen)
        /\ Len(ret.value[2][i]) = Len(chosen)
        /\ Descending(ret.value[1][i])
        /\ \A p \in DOMAIN chosen :
              /\ VSame(ret.value[1][i][p], Score(i, chosen[p]))
              /\ ret.value[2][i][p] = tk.train.elems[chosen[p]].x
        /\ \A j \in 1..Len(tk.train.elems) :
              (\A p \in DOMAIN chosen : chosen[p] /= j)
                  => \A p \in DOMAIN chosen : ~VGreater(Score(i, j), ret.value[1][i][p])

FedSet(fed) == {fed[p] : p \in 1..Len(fed)}

\* C5: two accumulators fed the same batches in any two orders hold, for
\* every query row, the same sorted score list (payloads of equal scores may
\* differ).
C5_PermutationInvariance ==
    FedSet(acc.fed_first) = FedSet(acc.fed_second)
    => get(acc.first)[1] = get(acc.second)[1]

\* C5 witness: all the batches fed in two different orders, the same scores
\* and different payloads
C5_Witness ==
    /\ Len(acc.fed_first) = Len(FedBatches)
    /\ Len(acc.fed_second) = Len(FedBatches)
    /\ acc.fed_first /= acc.fed_second
    /\ get(acc.first)[1] = get(acc.second)[1]
    /\ get(acc.first)[2] /= get(acc.second)[2]

\* the training samples a top_k call has fed to its accumulator so far
FedSoFar == Min(tk.read * tk.train.batch_size, Len(tk.train.elems))

\* C6: during and after a top_k call every query row of the accumulator
\* holds exactly min(k, m) entries, m the number of pairs fed to the row so
\* far, in descending order of score; the lists returned are those, so they
\* are shorter than k when fewer than k training samples were fed.
C6_SizeInvariant ==
    call.op = "top_k"
    => /\ \A i \in 1..Len(tk.dic.rows) :
             /\ Len(tk.dic.rows[i]) = Min(tk.k, FedSoFar)
             /\ Descending(get(tk.dic)[1][i])
       /\ TopKReturned =>
             /\ ret.value = get(tk.dic)
             /\ \A i \in 1..Len(tk.query) :
                   /\ Len(ret.value[1][i]) = Min(tk.k, Len(tk.train.elems))
                   /\ Len(ret.value[2][i]) = Min(tk.k, Len(tk.train.elems))

\* C6 witness: one training sample and k = 2: one entry per row is returned
C6_Witness ==
    /\ TopKReturned
    /\ tk.k = 2
    /\ Len(tk.train.elems) = 1
    /\ Len(tk.query) = 2
    /\ Len(ret.value[1][1]) = 1
    /\ Len(ret.value[1][2]) = 1

\* C11 (as claimed): ExactIHVP.compute_ihvp and compute_hvp with
\* use_gradient = False on a batched dataset of vectors whose trailing
\* dimension is not nb_params fail with ShapeError, also when the dimension is
\* a multiple of nb_params; they never return a result.
C11_TrailingDimension ==
    ( /\ call.op \in {"exact.compute_ihvp", "exact.compute_hvp"}
      /\ ~call.flag
      /\ call.a.kind = "vectors"
      /\ call.a.batch_size > 0
      /\ \E j \in 1..Len(call.a.elems) : Len(call.a.elems[j]) /= nb_params )
    => ret = Err("ShapeError")

\* C12 (as claimed): constructing ConjugateGradientDescentIHVP on a batched
\* dataset with an extractor-layer index outside the range of the model's
\* layers fails with ConfigurationError, before the feature-map dataset is
\* built and before a head or tail sub-network is created.
C12_LayerOutOfRange ==
    ( /\ call.op = "CGD"
      /\ call.a.batch_size > 0
      /\ call.hessian[1] >= NLayers )
    => /\ ret = Err("ConfigurationError")
       /\ events = <<>>
       /\ ~cgd.made

\* C13 (as claimed, for top_k): a top_k call on a training dataset that was
\* never batched is rejected with ShapeError at call entry: no gradient or
\* ihvp computation is started, no accumulator is created, and what the
\* caller gets is the ShapeError.
C13_NotBatchedRejected ==
    ( /\ call.op = "top_k"
      /\ call.a.batch_size = 0 )
    => /\ events = <<>>
       /\ tk = NoTopK
       /\ ret = Err("ShapeError")

\* C14: once an ExactIHVP instance is constructed, no call reassigns
\* inv_hessian or the training set; a hessian that is held is never replaced;
\* a hessian that is not held is assigned only by compute_hvp, as the
\* pseudo-inverse of inv_hessian; after a compute_hvp on a batched group the
\* hessian is held, and a compute_hvp that finds it held multiplies with it.
C14_HessianComputedOnce ==
    [][ exact.made =>
          /\ exact'.made
          /\ exact'.inv_hessian = exact.inv_hessian
          /\ exact'.train_set = exact.train_set
          /\ exact.hessian /= None => exact'.hessian = exact.hessian
          /\ (exact.hessian = None /\ exact'.hessian /= None) =>
                /\ call'.op = "exact.compute_hvp"
                /\ exact'.hessian = Pinv(exact.inv_hessian)
          /\ (call'.op = "exact.compute_hvp" /\ call'.a.batch_size > 0) =>
                exact'.hessian /= None
          /\ ( /\ call'.op = "exact.compute_hvp"
               /\ call'.a.batch_size > 0
               /\ call'.flag
               /\ exact.hessian /= None ) =>
                ret' = MatMulT(exact.hessian, batch_jacobian(call'.a))
      ]_vars

\* C14 witness: an instance built from a dataset (no hessian held at first)
\* has answered a compute_hvp and now holds the pseudo-inverse of inv_hessian,
\* which is not inv_hessian itself
C14_Witness ==
    /\ call.op = "exact.compute_hvp"
    /\ IsOk(ret)
    /\ exact.train_set /= NoDataset
    /\ exact.hessian = Pinv(exact.inv_hessian)
    /\ exact.hessian /= exact.inv_hessian

\* C15: an ExactIHVP built from a batched dataset with parallel_iter unset
\* holds the pseudo-inverse of (the sum of the hessians of all N samples)
\* divided by N, whatever the batch size, a smaller final batch included.
C15_MeanOverSamples ==
    ( /\ exact.made
      /\ exact.train_set /= NoDataset
      /\ exact.parallel_iter = 0 )
    => exact.inv_hessian =
          Pinv(MatScale(Inv(Z(Len(exact.train_set.elems))),
                        MatSum(Vec([i \in 1..Len(exact.train_set.elems) |->
                                       SampleHessian(exact.train_set.elems[i])]))))

\* C15 witness: an instance built from three samples in batches of two, the
\* last batch holding one sample whose hessian differs from the first one's
C15_Witness ==
    /\ exact.made
    /\ exact.parallel_iter = 0
    /\ Len(exact.train_set.elems) = 3
    /\ exact.train_set.batch_size = 2
    /\ SampleHessian(exact.train_set.elems[3]) /= SampleHessian(exact.train_set.elems[1])

\* the batches 1..n in order
InOrder(n) == [b \in 1..n |-> b]

\* C16: every invocation of the operator reads through an iterator of its
\* own: what it has read is always the batches 1, 2, ... of the feature-map
\* dataset in order, each once, never more than `cardinality` and never past
\* the end; an invocation that returns a product has read exactly
\* `cardinality` batches; two invocations with the same x that have ended,
\* however their steps were interleaved and whatever ran before, hold the
\* same result; and no invocation changes the instance or its dataset.
C16_FreshIterator ==
    /\ [](\A c \in Callers :
            opcalls[c].state /= "idle" =>
              /\ opcalls[c].read = InOrder(Len(opcalls[c].read))
              /\ Len(opcalls[c].read) <= cgd.cardinality
              /\ Len(opcalls[c].read) <= cardinality(cgd.train_set)
              /\ opcalls[c].ret /= Err("OutOfRangeError")
              /\ (opcalls[c].state = "done" /\ IsOk(opcalls[c].ret)) =>
                    opcalls[c].read = InOrder(cgd.cardinality)
              /\ \A d \in Callers :
                    ( /\ opcalls[c].state = "done"
                      /\ opcalls[d].state = "done"
                      /\ opcalls[c].x = opcalls[d].x ) =>
                        opcalls[c].ret = opcalls[d].ret)
    /\ [][cgd' = cgd]_vars

\* C16 witness: both callers have ended an invocation with the same x over a
\* dataset of two batches, and hold a product that is not zero
C16_Witness ==
    /\ cgd.cardinality = 2
    /\ opcalls[1].state = "done"
    /\ opcalls[2].state = "done"
    /\ opcalls[1].x = opcalls[2].x
    /\ IsOk(opcalls[1].ret)
    /\ opcalls[1].read = <<1, 2>>
    /\ opcalls[2].read = <<1, 2>>
    /\ \E i \in 1..nb_params : opcalls[1].ret.value[i][1] /= Z(0)

\* the feature maps of the instance's dataset
FeatureMaps == Vec([s \in 1..Len(cgd.train_set.elems) |-> cgd.train_set.elems[s].x.data])

\* H_s x for the sample with feature map f under the squared loss: f (f . x)
HessianTimes(f, x) == Vec([i \in 1..nb_params |-> VMul(f[i], Dot(f, x))])

\* C17 (amended): an invocation that returns holds (1 / N) times the sum
\* over all N samples of H_s x: every per-sample product is weighted 1 / N,
\* whatever the size of the batch it came in.
C17_MeanHessianAction ==
    \A c \in Callers :
        (opcalls[c].state = "done" /\ IsOk(opcalls[c].ret)) =>
            Flatten(opcalls[c].ret.value) =
                Vec([i \in 1..nb_params |->
                        VMul(Num(Rat(1, cgd.n_hessian)),
                             VecSum(Vec([s \in 1..Len(FeatureMaps) |->
                                 HessianTimes(FeatureMaps[s], opcalls[c].x)]))[i])])

\* C17 (as claimed): an invocation that returns holds the sum over the
\* batches b of (|b| / N) times the sum over the samples s of b of H_s x.
C17_BatchSizeWeight ==
    \A c \in Callers :
        (opcalls[c].state = "done" /\ IsOk(opcalls[c].ret)) =>
            Flatten(opcalls[c].ret.value) =
                VecSum(Vec([b \in 1..cardinality(cgd.train_set) |->
                    Vec([i \in 1..nb_params |->
                        VMul(Num(Rat(Len(Batches(cgd.train_set)[b]), cgd.n_hessian)),
                             VecSum(Vec([s \in 1..Len(Batches(cgd.train_set)[b]) |->
                                 HessianTimes(Batches(cgd.train_set)[b][s].x.data,
                                              opcalls[c].x)]))[i])])]))

\* C17 witness: an invocation over three samples in batches of two has
\* returned a product that is not zero
C17_Witness ==
    /\ cgd.n_hessian = 3
    /\ cgd.train_set.batch_size = 2
    /\ opcalls[1].state = "done"
    /\ IsOk(opcalls[1].ret)
    /\ \E i \in 1..nb_params : opcalls[1].ret.value[i][1] /= Z(0)

\* the events of a top_k call that has read n batches: the query gradients
\* once, then one compute_ihvp and one add_all for every batch
RECURSIVE TopKEvents(_)
TopKEvents(n) ==
    IF n = 0 THEN <<"batch_jacobian_tensor">>
    ELSE TopKEvents(n - 1) \o <<"compute_ihvp", "add_all">>

\* C18: at every point of a top_k call on a batched training dataset the
\* events so far are: the query gradients once, then for every batch read one
\* compute_ihvp followed by one add_all, and get() once at the very end, after
\* the last batch; the batches are taken in stream order (after n batches the
\* accumulator holds payloads of the first n batches only); between batches
\* every row holds at most k entries; and until get() the caller holds no
\* result.
C18_OrderOfEvents ==
    (call.op = "top_k" /\ call.a.batch_size > 0)
    => /\ tk.read <= cardinality(tk.train)
       /\ pc = "loop" => /\ events = TopKEvents(tk.read)
                         /\ ret = Ok(<<>>)
       /\ pc = "idle" => /\ tk.read = cardinality(tk.train)
                         /\ events = Append(TopKEvents(tk.read), "get")
                         /\ ret = Ok(get(tk.dic))
       /\ \A i \in 1..Len(tk.dic.rows) :
             /\ Len(tk.dic.rows[i]) <= tk.k
             /\ \A p \in 1..Len(tk.dic.rows[i]) :
                   \E j \in 1..FedSoFar : tk.dic.rows[i][p].payload = tk.train.elems[j].x

\* C18 witness: a call over three training samples in batches of two has
\* returned after two turns of the loop
C18_Witness ==
    /\ TopKReturned
    /\ Len(tk.train.elems) = 3
    /\ tk.train.batch_size = 2
    /\ events = <<"batch_jacobian_tensor", "compute_ihvp", "add_all",
                  "compute_ihvp", "add_all", "get">>

\* the place of entry j of a row of scores when equal scores are ordered by
\* encounter: one more than the number of entries that are greater, or are
\* the same and come earlier
RankOf(scores, j) ==
    1 + Cardinality({l \in 1..Len(scores) :
                        \/ VGreater(scores[l], scores[j])
                        \/ VSame(scores[l], scores[j]) /\ l < j})

\* the scores of every query row against every training sample, in stream
\* order
AllScores ==
    Vec([i \in 1..Len(tk.query) |-> Vec([j \in 1..Len(tk.train.elems) |-> Score(i, j)])])

\* C19: with normalize off, the lists top_k returns order equal scores by
\* encounter: the training sample that comes earlier in the stream (an
\* earlier batch, or earlier in the same batch) stands before the later one,
\* and when only one of them fits within the k entries it is the earlier one
\* that is kept.
C19_FirstSeenWinsTies ==
    (TopKReturned /\ ~calc.normalize)
    => LET kept(scores) ==
               \A i \in 1..Len(scores), j \in 1..Len(tk.train.elems) :
                   LET placed(rank) ==
                           rank <= tk.k =>
                               /\ Len(ret.value[1][i]) >= rank
                               /\ VSame(ret.value[1][i][rank], scores[i][j])
                               /\ ret.value[2][i][rank] = tk.train.elems[j].x
                   IN  placed(RankOf(scores[i], j))
       IN  kept(AllScores)

\* C19 witness: two training samples with different inputs and the same
\* score arrive in two batches, k = 1, and the input returned is the first
\* one's
C19_Witness ==
    /\ TopKReturned
    /\ ~calc.normalize
    /\ tk.k = 1
    /\ Len(tk.train.elems) = 2
    /\ tk.train.batch_size = 1
    /\ tk.train.elems[1].x /= tk.train.elems[2].x
    /\ VSame(Score(1, 1), Score(1, 2))
    /\ ret.value[2][1] = <<tk.train.elems[1].x>>

\* C20 (as claimed): the feature-map dataset a ConjugateGradientDescentIHVP
\* builds from a batched dataset of N >= 1 samples holds N (feature, label)
\* pairs in source order, the i-th feature being the head's output for the
\* i-th sample in its full per-sample shape and the i-th label the i-th
\* source label, in batches of the source's batch size; N = 1 included.
C20_FeatureMapDataset ==
    ( /\ call.op = "CGD"
      /\ call.a.batch_size > 0
      /\ call.hessian[1] < NLayers )
    => /\ cgd.made
       /\ cgd.train_set.batch_size = call.a.batch_size
       /\ Len(cgd.train_set.elems) = Len(call.a.elems)
       /\ \A i \in 1..Len(call.a.elems) :
             /\ cgd.train_set.elems[i].x =
                   Tensor(<<nb_params>>, feature_extractor(call.a.elems[i].x))
             /\ cgd.train_set.elems[i].y = call.a.elems[i].y

\* the calculator with its normalize flag off
Unnormalized == Calculator(FALSE, calc.kind, calc.ihvp)

\* C21: for a batched group of n >= 1 points, with normalize off
\* compute_influence_group returns the sum of the n rows compute_influence
\* returns for the group; with normalize on it returns the sum of the n
\* un-normalized per-point rows divided by its norm (one normalization,
\* after the reduction).  One call fails exactly when the other does.
C21_GroupIsSumOfPoints ==
    ( /\ call.op = "compute_influence_group"
      /\ call.a.batch_size > 0
      /\ Len(call.a.elems) >= 1 )
    => \E points \in {compute_influence(Unnormalized, call.a).ret} :
          /\ IsOk(ret) <=> IsOk(points)
          /\ IsOk(ret) =>
                ret.value = << IF calc.normalize THEN DivideByNorm1(VecSum(points.value))
                               ELSE VecSum(compute_influence(calc, call.a).ret.value) >>

\* C21 witness: normalize on, a group of two points whose normalized
\* influence vectors are the same nonzero vector; the group's vector has
\* unit norm, it is that vector and not the sum of the two
C21_Witness ==
    /\ call.op = "compute_influence_group"
    /\ call.a.batch_size > 0
    /\ Len(call.a.elems) = 2
    /\ calc.normalize
    /\ IsOk(ret)
    /\ NoNaN(ret.value[1])
    /\ VSame(Norm(ret.value[1]), Z(1))
    /\ \E rows \in {compute_influence(calc, call.a).ret.value} :
          /\ NoNaN(rows[1])
          /\ rows[1] = rows[2]
          /\ ret.value[1] = rows[1]
          /\ \E i \in 1..nb_params : ~VSame(VecSum(rows)[i], ret.value[1][i])

=============================================================================
